---- MODULE Spec2Model ----
(***************************************************************************)
(* The guest-memory manager of the VMM (vmm/src/memory_manager.rs):        *)
(* MemoryManager::new, the slot counter, create_userspace_mapping and      *)
(* get_host_cpu_phys_bits.                                                 *)
(*                                                                         *)
(* Guest addresses are u64.  They are kept at full width as four 16-bit    *)
(* limbs, least significant first, so that the layout constants, the       *)
(* shift by the probed address width and the add at the top of the address *)
(* space are the ones of the source.  The slot counter is a u32 in the     *)
(* source; here its width is SlotBits, so that exhaustion is within reach  *)
(* of a run.                                                               *)
(***************************************************************************)
EXTENDS Integers, Sequences, FiniteSets, TLC

\* ------------------------------------------------------------------------
\* Bounds of the model
\* ------------------------------------------------------------------------

\* Width of next_kvm_memory_slot (u32 in the source).
SlotBits == 3

\* Threads that share the Arc<Mutex<MemoryManager>> once new has returned.
NumThreads == 2

\* Calls the threads make in all after construction.
MaxCalls == 2

\* The same, in the specification of the slot counter.
SlotCalls == 5

\* ------------------------------------------------------------------------
\* u64 arithmetic on limbs
\* ------------------------------------------------------------------------

RECURSIVE Pow2(_)
Pow2(n) == IF n = 0 THEN 1 ELSE 2 * Pow2(n - 1)

Limb == Pow2(16)

U64(l0, l1, l2, l3) == <<l0, l1, l2, l3>>

U64Zero == U64(0, 0, 0, 0)

U64One == U64(1, 0, 0, 0)

U64Max == U64(Limb - 1, Limb - 1, Limb - 1, Limb - 1)

\* a < b
U64Lt(a, b) ==
    \/ a[4] < b[4]
    \/ a[4] = b[4] /\ a[3] < b[3]
    \/ a[4] = b[4] /\ a[3] = b[3] /\ a[2] < b[2]
    \/ a[4] = b[4] /\ a[3] = b[3] /\ a[2] = b[2] /\ a[1] < b[1]

U64Le(a, b) == a = b \/ U64Lt(a, b)

\* a + b: the sum modulo 2^64 and whether it overflowed
U64Add(a, b) ==
    LET s1 == a[1] + b[1]
        s2 == a[2] + b[2] + (s1 \div Limb)
        s3 == a[3] + b[3] + (s2 \div Limb)
        s4 == a[4] + b[4] + (s3 \div Limb)
    IN  [val |-> U64(s1 % Limb, s2 % Limb, s3 % Limb, s4 % Limb),
         overflow |-> s4 >= Limb]

\* a - b modulo 2^64 and whether it borrowed
U64Sub(a, b) ==
    LET d1 == a[1] - b[1]
        b1 == IF d1 < 0 THEN 1 ELSE 0
        d2 == a[2] - b[2] - b1
        b2 == IF d2 < 0 THEN 1 ELSE 0
        d3 == a[3] - b[3] - b2
        b3 == IF d3 < 0 THEN 1 ELSE 0
        d4 == a[4] - b[4] - b3
    IN  [val |-> U64(d1 % Limb, d2 % Limb, d3 % Limb, d4 % Limb),
         overflow |-> d4 < 0]

\* 2^n as a u64, for n in 0..63
U64Pow2(n) == [i \in 1..4 |-> IF i = (n \div 16) + 1 THEN Pow2(n % 16) ELSE 0]

\* ------------------------------------------------------------------------
\* get_host_cpu_phys_bits
\* ------------------------------------------------------------------------

\* A u32 register value as two 16-bit limbs, least significant first.
U32(lo, hi) == <<lo, hi>>

U32Ge(a, b) == a[2] > b[2] \/ (a[2] = b[2] /\ a[1] >= b[1])

\* 0x8000_0000 + n
ExtLeaf(n) == U32(n, 32768)

\* Vendor ID registers of leaf 0x8000_0000: "AuthenticAMD"
AMD_EBX == U32(30017, 26740)

AMD_ECX == U32(16739, 17485)

AMD_EDX == U32(28261, 26996)

\* What CPUID answers on leaf 0x8000_0000 for the vendors of the model:
\* AMD, Intel (the three registers are reserved, zero) and Hygon.
VendorRegs ==
    { [ebx |-> AMD_EBX, ecx |-> AMD_ECX, edx |-> AMD_EDX],
      [ebx |-> U32(0, 0), ecx |-> U32(0, 0), edx |-> U32(0, 0)],
      [ebx |-> U32(31048, 28519), ecx |-> U32(26997, 25966), edx |-> U32(18286, 28261)] }

\* Highest extended leaf (eax of leaf 0x8000_0000).  The first value is a CPU
\* with no extended leaves at all.
MaxLeafs ==
    { U32(22, 0), ExtLeaf(0), ExtLeaf(7), ExtLeaf(8), ExtLeaf(30), ExtLeaf(31),
      ExtLeaf(33) }

\* Address-bit counts reported in eax[7:0] of leaf 0x8000_0008.
RawBits == {0, 1, 5, 36, 39, 48, 52, 63, 64, 65, 128, 255}

\* Values of the reduction field, ebx[11:6] of leaf 0x8000_001f.
Reductions == {0, 1, 5, 6, 47, 63}

\* eax of leaf 0x8000_001f: bit 0 is SME, bit 1 is SEV.
SmeEax == {0, 1, 2, 3}

\* The host CPU as CPUID shows it.  leaf8_eax holds the linear address
\* bits (48) in bits 15:8; leaf1f_ebx holds the C-bit position (47) in bits
\* 5:0.  A leaf above the highest supported one reads as zero.
Cpus ==
    { c \in [ max_leaf : MaxLeafs, vendor : VendorRegs,
              leaf8_eax : {r + 256 * 48 : r \in RawBits} \cup {0},
              leaf1f_eax : SmeEax,
              leaf1f_ebx : {47 + 64 * r : r \in Reductions} \cup {0} ] :
        /\ (~U32Ge(c.max_leaf, ExtLeaf(8))) => c.leaf8_eax = 0
        /\ U32Ge(c.max_leaf, ExtLeaf(8)) => c.leaf8_eax # 0
        /\ (~U32Ge(c.max_leaf, ExtLeaf(31))) => (c.leaf1f_eax = 0 /\ c.leaf1f_ebx = 0)
        /\ U32Ge(c.max_leaf, ExtLeaf(31)) => c.leaf1f_ebx # 0 }

IsAMD(c) ==
    c.vendor.ebx = AMD_EBX /\ c.vendor.ecx = AMD_ECX /\ c.vendor.edx = AMD_EDX

\* The value of `reduced` (lines 53-62).
Reduced(c) ==
    IF /\ U32Ge(c.max_leaf, ExtLeaf(31))
       /\ IsAMD(c)
       /\ (c.leaf1f_eax % 2) # 0
    THEN (c.leaf1f_ebx \div 64) % 64
    ELSE 0

\* get_host_cpu_phys_bits on CPU c.  The subtraction is a u32 subtraction:
\* when it underflows, a build with overflow checks panics and a build
\* without them wraps, and `as u8` keeps the low eight bits.
get_host_cpu_phys_bits(c, checks) ==
    IF U32Ge(c.max_leaf, ExtLeaf(8))
    THEN LET raw == c.leaf8_eax % 256
         IN  IF raw < Reduced(c) /\ checks
             THEN [panic |-> TRUE, bits |-> 0]
             ELSE [panic |-> FALSE, bits |-> (raw - Reduced(c)) % 256]
    ELSE [panic |-> FALSE, bits |-> 36]

\* ------------------------------------------------------------------------
\* Inputs of MemoryManager::new
\* ------------------------------------------------------------------------

MiB512 == U64(0, 8192, 0, 0)

GiB1 == U64(0, 16384, 0, 0)

GiB3 == U64(0, 49152, 0, 0)

GiB4 == U64(0, 0, 1, 0)

GiB128 == U64(0, 0, 32, 0)

\* 2^64 - 1 GiB
TopGiB == U64(0, 49152, Limb - 1, Limb - 1)

\* arch::layout::MEM_32BIT_RESERVED_START, 0xc000_0000
MEM_32BIT_RESERVED_START == GiB3

\* arch::layout::RAM_64BIT_START, 0x1_0000_0000
RAM_64BIT_START == GiB4

Region(a, l, t) == [addr |-> a, len |-> l, type |-> t]

Hole32 == Region(MEM_32BIT_RESERVED_START, GiB1, "Reserved")

\* Results of arch::arch_memory_regions(boot_ram): ordered lists of
\* non-overlapping (GuestAddress, usize, RegionType) regions.  In order: no
\* RAM at all (boot_ram = 0), 512 MiB, exactly 3 GiB, 4 GiB and 131 GiB of
\* RAM around the 32-bit hole, and RAM whose last byte is the last address.
ArchLayouts ==
    { << Region(U64Zero, U64Zero, "Ram"), Hole32 >>,
      << Region(U64Zero, MiB512, "Ram"), Hole32 >>,
      << Region(U64Zero, GiB3, "Ram"), Hole32 >>,
      << Region(U64Zero, GiB3, "Ram"), Region(RAM_64BIT_START, GiB1, "Ram"), Hole32 >>,
      << Region(U64Zero, GiB3, "Ram"), Region(RAM_64BIT_START, GiB128, "Ram"), Hole32 >>,
      << Region(U64Zero, GiB3, "Ram"), Region(TopGiB, GiB1, "Ram"), Hole32 >> }

\* The layouts the slot-counter specification starts from (one and two RAM
\* regions).
SlotLayouts ==
    { << Region(U64Zero, MiB512, "Ram"), Hole32 >>,
      << Region(U64Zero, GiB3, "Ram"), Region(RAM_64BIT_START, GiB1, "Ram"), Hole32 >> }

\* backing_file: None, or Some(path) where path is a regular file, a
\* directory, or neither.
BackingKinds == {"None", "File", "Dir", "Other"}

\* The host CPUs of the main specification: Intel with 39 and 64 address
\* bits, a CPU without leaf 0x8000_0008, AMD with SME taking 5 of 48 bits.
SampleCpus ==
    { c \in Cpus :
        \/ /\ c.max_leaf = ExtLeaf(8) /\ ~IsAMD(c) /\ c.vendor.ebx = U32(0, 0)
           /\ c.leaf8_eax % 256 \in {39, 64}
        \/ /\ c.max_leaf = ExtLeaf(7) /\ c.vendor.ebx = U32(0, 0)
        \/ /\ c.max_leaf = ExtLeaf(31) /\ IsAMD(c) /\ c.leaf1f_eax = 1
           /\ c.leaf8_eax % 256 = 48 /\ (c.leaf1f_ebx \div 64) % 64 = 5 }

\* Guest-physical range, size and host address of the mappings registered
\* after construction.
DynamicMappings == { [gpa |-> U64(0, 0, 256, 0), size |-> GiB1, host |-> 100] }

\* What libc::madvise returns: 0, or -1 with errno EINVAL (22) or ENOMEM (12).
MadviseErrnos == {0, 22, 12}

Threads == 1..NumThreads

SlotModulus == Pow2(SlotBits)

VARIABLES
    arch_mem_regions,       \* arch::arch_memory_regions(boot_ram)
    backing_file,           \* kind of the backing_file argument
    mergeable,              \* the mergeable argument of new
    overflow_checks,        \* whether the build panics on integer overflow
    pc,                     \* where new is: "backing", "layout", "register",
                            \* "reserve", and how it ended: "Ready", "Err", "Panic"
    idx,                    \* position of the loop new is in
    error,                  \* the Error new returned, "None" if none
    mem_regions,            \* Vec of (GuestAddress, usize, Option<FileOffset>)
    shared_file_len,        \* length of the regular backing file
    tmp_files,              \* temporary files made by mkstemp
    guest_memory,           \* regions of the GuestMemoryMmap, <<>> before it is built
    phys_bits,              \* what get_host_cpu_phys_bits returned
    next_kvm_memory_slot,
    start_of_device_area,
    end_of_device_area,
    minted,                 \* slot IDs returned by allocate_kvm_memory_slot, in order
    hv_calls,               \* set_user_memory_region calls the hypervisor saw
    last_call,              \* the last create_userspace_mapping that finished
    reservations,           \* allocate_mmio_addresses calls
    mutex,                  \* 0 free, t held by thread t, -1 poisoned
    tpc,                    \* per thread: "idle", "allocate", "create", "set_region", "panicked"
    tslot,                  \* per thread: the slot local of create_userspace_mapping
    returned,               \* what the calls made after construction returned
    calls_left,             \* calls the threads may still start
    host_cpu,               \* the CPU the process runs on
    initial_slot,           \* next_kvm_memory_slot when new returned Ok
    failed_call,            \* the call whose failure ended the backing-store loop
    madvised,               \* host addresses madvise was called on
    observed                \* what the last accessor call returned

vars ==
    << arch_mem_regions, backing_file, mergeable, overflow_checks, pc, idx, error,
       mem_regions, shared_file_len, tmp_files, guest_memory, phys_bits,
       next_kvm_memory_slot, start_of_device_area, end_of_device_area, minted,
       hv_calls, last_call, reservations, mutex, tpc, tslot, returned, calls_left,
       host_cpu, initial_slot, failed_call, madvised, observed >>

\* ram_regions (lines 84-88)
RamRegions(regions) == SelectSeq(regions, LAMBDA r : r.type = "Ram")

ram_regions == RamRegions(arch_mem_regions)

\* No accessor was called yet.
NoRead == [op |-> "None", addr |-> U64Zero, regions |-> << >>]

NoCall ==
    [by |-> -1, slot |-> 0, mergeable |-> FALSE, hv_ok |-> FALSE,
     advised |-> FALSE, errno |-> 0, ok |-> FALSE]

InitWith(layouts, kinds, merges, cpus, calls, at) ==
    /\ host_cpu \in cpus
    /\ arch_mem_regions \in layouts
    /\ backing_file \in kinds
    /\ mergeable \in merges
    /\ overflow_checks \in BOOLEAN
    /\ pc = at
    /\ idx = 1
    /\ error = "None"
    /\ mem_regions = << >>
    /\ shared_file_len = U64Zero
    /\ tmp_files = << >>
    /\ guest_memory = << >>
    /\ phys_bits = 0
    /\ next_kvm_memory_slot = 0
    /\ start_of_device_area = U64Zero
    /\ end_of_device_area = U64Zero
    /\ minted = << >>
    /\ hv_calls = << >>
    /\ last_call = NoCall
    /\ reservations = << >>
    /\ mutex = 0
    /\ tpc = [t \in Threads |-> "idle"]
    /\ tslot = [t \in Threads |-> 0]
    /\ returned = << >>
    /\ calls_left = calls
    /\ initial_slot = 0
    /\ failed_call = "None"
    /\ madvised = {}
    /\ observed = NoRead

Init == InitWith(ArchLayouts, BackingKinds, BOOLEAN, SampleCpus, MaxCalls, "backing")

\* ------------------------------------------------------------------------
\* MemoryManager::new: the backing store (lines 90-124)
\* ------------------------------------------------------------------------

EndNew(kind, err) == pc' = kind /\ error' = err

\* One turn of the loop over ram_regions with Some(file).
BuildRegion ==
    /\ pc = "backing"
    /\ backing_file # "None"
    /\ idx <= Len(ram_regions)
    /\ LET region == ram_regions[idx]
       IN  \/ /\ backing_file = "File"
              /\ \E open_ok \in BOOLEAN, set_len_ok \in BOOLEAN :
                    IF ~open_ok
                    THEN /\ EndNew("Err", "SharedFileCreate")
                         /\ failed_call' = "open"
                         /\ UNCHANGED << idx, mem_regions, shared_file_len >>
                    ELSE IF ~set_len_ok
                    THEN /\ EndNew("Err", "SharedFileSetLen")
                         /\ failed_call' = "set_len"
                         /\ UNCHANGED << idx, mem_regions, shared_file_len >>
                    ELSE /\ shared_file_len' = region.len
                         /\ mem_regions' = Append(mem_regions,
                                [addr |-> region.addr, len |-> region.len, file |-> 0])
                         /\ idx' = idx + 1
                         /\ UNCHANGED << pc, error, failed_call >>
              /\ UNCHANGED tmp_files
           \/ /\ backing_file = "Dir"
              /\ \E mkstemp_ok \in BOOLEAN, unlink_ok \in BOOLEAN,
                    set_len_ok \in BOOLEAN, fd_checked \in BOOLEAN :
                    \* unlink's result is not looked at: when it fails the name
                    \* mkstemp made stays in the directory.
                    IF ~mkstemp_ok
                    \* fd is -1 and no file was made.  File::from_raw_fd(-1)
                    \* breaks the contract of from_raw_fd: the standard library
                    \* either panics on the fd or hands it to ftruncate, which
                    \* fails with EBADF.
                    THEN /\ IF fd_checked
                            THEN pc' = "Panic" /\ UNCHANGED error
                            ELSE EndNew("Err", "SharedFileSetLen")
                         /\ failed_call' = "mkstemp"
                         /\ UNCHANGED << idx, mem_regions, tmp_files >>
                    ELSE IF ~set_len_ok
                    THEN /\ EndNew("Err", "SharedFileSetLen")
                         /\ failed_call' = "set_len"
                         /\ tmp_files' = Append(tmp_files,
                                [len |-> U64Zero, visible |-> ~unlink_ok,
                                 open |-> FALSE])
                         /\ UNCHANGED << idx, mem_regions >>
                    ELSE /\ tmp_files' = Append(tmp_files,
                                [len |-> region.len, visible |-> ~unlink_ok,
                                 open |-> TRUE])
                         /\ mem_regions' = Append(mem_regions,
                                [addr |-> region.addr, len |-> region.len,
                                 file |-> Len(tmp_files) + 1])
                         /\ idx' = idx + 1
                         /\ UNCHANGED << pc, error, failed_call >>
              /\ UNCHANGED shared_file_len
           \/ /\ backing_file = "Other"
              /\ idx' = idx + 1
              /\ UNCHANGED << pc, error, mem_regions, shared_file_len, tmp_files,
                              failed_call >>
    /\ UNCHANGED << arch_mem_regions, backing_file, mergeable, overflow_checks,
                    guest_memory, phys_bits, next_kvm_memory_slot,
                    start_of_device_area, end_of_device_area, minted, hv_calls,
                    last_call, reservations, mutex, tpc, tslot, returned,
                    calls_left, host_cpu, initial_slot, madvised, observed >>

\* Last address of a region; the region may end at the last address of all.
LastAddr(r) == U64Sub(U64Add(r.addr, r.len).val, U64One).val

\* What GuestMemoryMmap::new and with_files accept: at least one region, no
\* empty region, no region past the end of the address space, each region
\* above the one before it.
ValidRanges(ranges) ==
    /\ Len(ranges) > 0
    /\ \A i \in 1..Len(ranges) :
          /\ ranges[i].len # U64Zero
          /\ U64Le(ranges[i].addr, LastAddr(ranges[i]))
    /\ \A i \in 1..(Len(ranges) - 1) :
          U64Lt(LastAddr(ranges[i]), ranges[i + 1].addr)

\* A loop that pushes a region whatever the path is.
MappedRangesOfRam ==
    [i \in 1..Len(ram_regions) |->
        [addr |-> ram_regions[i].addr, len |-> ram_regions[i].len]]

\* The ranges handed to the guest-memory constructor (lines 121, 123).
MappedRanges ==
    IF backing_file = "None"
    THEN [i \in 1..Len(ram_regions) |->
            [addr |-> ram_regions[i].addr, len |-> ram_regions[i].len]]
    ELSE [i \in 1..Len(mem_regions) |->
            [addr |-> mem_regions[i].addr, len |-> mem_regions[i].len]]

\* GuestMemoryMmap::with_files or GuestMemoryMmap::new, and the map_err.
MapGuestMemory ==
    /\ pc = "backing"
    /\ backing_file = "None" \/ idx > Len(ram_regions)
    /\ \E mmap_ok \in BOOLEAN :
          IF ValidRanges(MappedRanges) /\ mmap_ok
          THEN /\ guest_memory' =
                    [i \in 1..Len(MappedRanges) |->
                        [addr |-> MappedRanges[i].addr, len |-> MappedRanges[i].len,
                         host |-> i]]
               /\ pc' = "layout"
               /\ UNCHANGED error
          ELSE /\ EndNew("Err", "GuestMemory")
               /\ UNCHANGED guest_memory
    /\ UNCHANGED << arch_mem_regions, backing_file, mergeable, overflow_checks, idx,
                    mem_regions, shared_file_len, tmp_files, phys_bits,
                    next_kvm_memory_slot, start_of_device_area, end_of_device_area,
                    minted, hv_calls, last_call, reservations, mutex, tpc, tslot,
                    returned, calls_left, host_cpu, initial_slot,
                    failed_call, madvised, observed >>

\* ------------------------------------------------------------------------
\* MemoryManager::new: the device area and the manager (lines 126-142)
\* ------------------------------------------------------------------------

\* (1 << bits) - 1 on u64 with a u8 shift amount.  A shift by 64 or more
\* overflows: a build with overflow checks panics, a build without them
\* shifts by the amount modulo 64.
EndOfDeviceArea(bits, checks) ==
    IF bits >= 64 /\ checks
    THEN [panic |-> TRUE, val |-> U64Zero]
    ELSE [panic |-> FALSE, val |-> U64Sub(U64Pow2(bits % 64), U64One).val]

\* guest_memory.end_addr(): the last address of the highest region.
MemEnd(gm) == LastAddr(gm[Len(gm)])

\* Address::unchecked_add: panics on overflow in a build with overflow
\* checks and wraps in a build without them.
UncheckedAdd(a, b, checks) ==
    LET s == U64Add(a, b)
    IN  [panic |-> s.overflow /\ checks, val |-> s.val]

StartOfDeviceArea(mem_end, checks) ==
    IF U64Lt(mem_end, MEM_32BIT_RESERVED_START)
    THEN [panic |-> FALSE, val |-> RAM_64BIT_START]
    ELSE UncheckedAdd(mem_end, U64One, checks)

\* next_kvm_memory_slot: ram_regions.len() as u32
SlotSeed(regions) == Len(RamRegions(regions)) % SlotModulus

ComputeLayout ==
    /\ pc = "layout"
    /\ LET probe == get_host_cpu_phys_bits(host_cpu, overflow_checks)
           end_area == EndOfDeviceArea(probe.bits, overflow_checks)
           start_area == StartOfDeviceArea(MemEnd(guest_memory), overflow_checks)
       IN  IF probe.panic
           THEN /\ pc' = "Panic"
                /\ UNCHANGED << phys_bits, end_of_device_area, start_of_device_area,
                                next_kvm_memory_slot >>
           ELSE IF end_area.panic
           THEN /\ pc' = "Panic"
                /\ phys_bits' = probe.bits
                /\ UNCHANGED << end_of_device_area, start_of_device_area,
                                next_kvm_memory_slot >>
           ELSE IF start_area.panic
           THEN /\ pc' = "Panic"
                /\ phys_bits' = probe.bits
                /\ end_of_device_area' = end_area.val
                /\ UNCHANGED << start_of_device_area, next_kvm_memory_slot >>
           ELSE /\ pc' = "register"
                /\ phys_bits' = probe.bits
                /\ end_of_device_area' = end_area.val
                /\ start_of_device_area' = start_area.val
                /\ next_kvm_memory_slot' = SlotSeed(arch_mem_regions)
    /\ idx' = 1
    /\ UNCHANGED << arch_mem_regions, backing_file, mergeable, overflow_checks, error,
                    mem_regions, shared_file_len, tmp_files, guest_memory, minted,
                    hv_calls, last_call, reservations, mutex, tpc, tslot, returned,
                    calls_left, host_cpu, initial_slot, failed_call, madvised, observed >>

\* ------------------------------------------------------------------------
\* allocate_kvm_memory_slot and create_userspace_mapping (lines 178-234)
\* ------------------------------------------------------------------------

\* self.next_kvm_memory_slot += 1
NextSlot(n) == (n + 1) % SlotModulus

\* The += overflows when the counter holds the largest value.
SlotOverflow(n) == n + 1 = SlotModulus

\* A madvise that does not wait for the hypervisor's answer.
AdvisedWhenAsked(mrg, hv_ok) == mrg

\* The `?` after set_user_memory_region and `if mergeable`: madvise is called
\* only when the hypervisor call succeeded and merging was asked for.
Advised(mrg, hv_ok) == hv_ok /\ mrg

\* A create_userspace_mapping that fails when madvise fails.
CreateOkStrict(hv_ok, errno) == hv_ok /\ errno = 0

\* A create_userspace_mapping that drops the hypervisor's error.
CreateOkAlways(hv_ok, errno) == TRUE

\* Whether create_userspace_mapping returns Ok(slot): the hypervisor's answer
\* alone; what madvise returns is only logged.
CreateOk(hv_ok, errno) == hv_ok

\* What madvise may answer for a call: nothing when it is not called.
MadviseAnswers(mrg, hv_ok) == IF Advised(mrg, hv_ok) THEN MadviseErrnos ELSE {0}

\* An error return that takes back the calls made before it.
AfterErrorUndone(calls) == << >>

\* What is left of the hypervisor registrations, or of the allocator
\* reservations, when new returns an error: all of them.  Between a `?` and
\* the return no call removes a slot or frees a range.
AfterError(calls) == calls

\* The part of create_userspace_mapping after the slot is allocated (lines
\* 192-233), by caller `by` (0 is new) for mapping m.
SetRegion(by, slot, m, mrg, hv_ok, errno) ==
    /\ LET calls == Append(hv_calls,
                [slot |-> slot, gpa |-> m.gpa, size |-> m.size, host |-> m.host,
                 ok |-> hv_ok])
       IN  hv_calls' = IF by = 0 /\ ~CreateOk(hv_ok, errno)
                       THEN AfterError(calls)
                       ELSE calls
    /\ madvised' = IF Advised(mrg, hv_ok) THEN madvised \cup {m.host} ELSE madvised
    /\ last_call' =
            [by |-> by, slot |-> slot, mergeable |-> mrg, hv_ok |-> hv_ok,
             advised |-> Advised(mrg, hv_ok), errno |-> errno,
             ok |-> CreateOk(hv_ok, errno)]

\* ------------------------------------------------------------------------
\* MemoryManager::new: registration and reservation (lines 144-163)
\* ------------------------------------------------------------------------

\* A loop that stops after its first turn.
LoopDoneAtOnce(i, n) == TRUE

\* with_regions and the for loop go on to the statement after them when the
\* closure or body has run for the last of the n elements.
LoopDone(i, n) == i = n

\* A reservation whose None is taken for Some.
OkOrAlways(some) == TRUE

\* .ok_or(Error::MemoryRangeAllocation)?: goes on when allocate_mmio_addresses
\* answered Some.
OkOr(some) == some

\* One turn of with_regions: lock, create_userspace_mapping, unlock.
RegisterRegion ==
    /\ pc = "register"
    /\ idx <= Len(guest_memory)
    /\ LET region == guest_memory[idx]
           m == [gpa |-> region.addr, size |-> region.len, host |-> region.host]
           slot == next_kvm_memory_slot
       IN  IF SlotOverflow(slot) /\ overflow_checks
           THEN /\ pc' = "Panic"
                /\ mutex' = -1
                /\ UNCHANGED << idx, error, next_kvm_memory_slot, minted, hv_calls,
                                last_call, madvised >>
           ELSE /\ next_kvm_memory_slot' = NextSlot(slot)
                /\ minted' = Append(minted, slot)
                /\ \E hv_ok \in BOOLEAN :
                   \E errno \in MadviseAnswers(mergeable, hv_ok) :
                      /\ SetRegion(0, slot, m, mergeable, hv_ok, errno)
                      /\ IF ~CreateOk(hv_ok, errno)
                         THEN EndNew("Err", "GuestMemory") /\ UNCHANGED idx
                         ELSE IF LoopDone(idx, Len(guest_memory))
                         THEN pc' = "reserve" /\ idx' = 1 /\ UNCHANGED error
                         ELSE idx' = idx + 1 /\ UNCHANGED << pc, error >>
                /\ UNCHANGED mutex
    /\ UNCHANGED << arch_mem_regions, backing_file, mergeable, overflow_checks,
                    mem_regions, shared_file_len, tmp_files, guest_memory, phys_bits,
                    start_of_device_area, end_of_device_area, reservations, tpc,
                    tslot, returned, calls_left, host_cpu, initial_slot,
                    failed_call, observed >>

\* One turn of the loop over arch_mem_regions: allocate_mmio_addresses answers
\* Some(address) or None.
ReserveRegion ==
    /\ pc = "reserve"
    /\ idx <= Len(arch_mem_regions)
    /\ LET region == arch_mem_regions[idx]
       IN  \E some \in BOOLEAN :
              LET calls == Append(reservations,
                      [addr |-> region.addr, len |-> region.len, ok |-> some])
              IN  IF ~OkOr(some)
                  THEN /\ EndNew("Err", "MemoryRangeAllocation")
                       /\ reservations' = AfterError(calls)
                       /\ hv_calls' = AfterError(hv_calls)
                       /\ UNCHANGED << idx, initial_slot >>
                  ELSE /\ reservations' = calls
                       /\ UNCHANGED hv_calls
                       /\ IF LoopDone(idx, Len(arch_mem_regions))
                          THEN /\ pc' = "Ready"
                               /\ initial_slot' = next_kvm_memory_slot
                               /\ UNCHANGED << idx, error >>
                          ELSE idx' = idx + 1 /\ UNCHANGED << pc, error, initial_slot >>
    /\ UNCHANGED << arch_mem_regions, backing_file, mergeable, overflow_checks,
                    mem_regions, shared_file_len, tmp_files, guest_memory, phys_bits,
                    next_kvm_memory_slot, start_of_device_area, end_of_device_area,
                    minted, last_call, mutex, tpc, tslot, returned, calls_left,
                    host_cpu, failed_call, madvised, observed >>

\* ------------------------------------------------------------------------
\* Calls on the manager after construction, through Arc<Mutex<MemoryManager>>
\* ------------------------------------------------------------------------

\* A lock that never makes a thread wait.
MutexFreeAlways == TRUE

\* Mutex::lock gives the guard to one thread at a time.
MutexFree == mutex = 0

\* memory_manager.lock().unwrap(), before either &mut self method.
ThreadLock(t) ==
    /\ pc = "Ready"
    /\ tpc[t] = "idle"
    /\ calls_left > 0
    /\ MutexFree
    /\ mutex' = t
    /\ calls_left' = calls_left - 1
    /\ \E op \in {"allocate", "create"} : tpc' = [tpc EXCEPT ![t] = op]
    /\ UNCHANGED << arch_mem_regions, backing_file, mergeable, overflow_checks, pc,
                    idx, error, mem_regions, shared_file_len, tmp_files,
                    guest_memory, phys_bits, next_kvm_memory_slot,
                    start_of_device_area, end_of_device_area, minted, hv_calls,
                    last_call, reservations, tslot, returned, host_cpu, initial_slot,
                    failed_call, madvised, observed >>

\* allocate_kvm_memory_slot called by thread t, and the guard dropped.
ThreadAllocate(t) ==
    /\ tpc[t] = "allocate"
    /\ LET slot_id == next_kvm_memory_slot
       IN  IF SlotOverflow(slot_id) /\ overflow_checks
           THEN /\ tpc' = [tpc EXCEPT ![t] = "panicked"]
                /\ mutex' = -1
                /\ UNCHANGED << next_kvm_memory_slot, minted, returned >>
           ELSE /\ next_kvm_memory_slot' = NextSlot(slot_id)
                /\ minted' = Append(minted, slot_id)
                /\ returned' = Append(returned,
                        [op |-> "allocate", ok |-> TRUE, slot |-> slot_id])
                /\ tpc' = [tpc EXCEPT ![t] = "idle"]
                /\ mutex' = 0
    /\ UNCHANGED << arch_mem_regions, backing_file, mergeable, overflow_checks, pc,
                    idx, error, mem_regions, shared_file_len, tmp_files,
                    guest_memory, phys_bits, start_of_device_area,
                    end_of_device_area, hv_calls, last_call, reservations, tslot,
                    calls_left, host_cpu, initial_slot, failed_call, madvised, observed >>

\* create_userspace_mapping called by thread t, line 191.
ThreadCreateAllocate(t) ==
    /\ tpc[t] = "create"
    /\ LET slot_id == next_kvm_memory_slot
       IN  IF SlotOverflow(slot_id) /\ overflow_checks
           THEN /\ tpc' = [tpc EXCEPT ![t] = "panicked"]
                /\ mutex' = -1
                /\ UNCHANGED << next_kvm_memory_slot, minted, tslot >>
           ELSE /\ next_kvm_memory_slot' = NextSlot(slot_id)
                /\ minted' = Append(minted, slot_id)
                /\ tslot' = [tslot EXCEPT ![t] = slot_id]
                /\ tpc' = [tpc EXCEPT ![t] = "set_region"]
                /\ UNCHANGED mutex
    /\ UNCHANGED << arch_mem_regions, backing_file, mergeable, overflow_checks, pc,
                    idx, error, mem_regions, shared_file_len, tmp_files,
                    guest_memory, phys_bits, start_of_device_area,
                    end_of_device_area, hv_calls, last_call, reservations, returned,
                    calls_left, host_cpu, initial_slot, failed_call, madvised, observed >>

\* create_userspace_mapping called by thread t, lines 192-233, and the guard
\* dropped.
ThreadCreateSetRegion(t) ==
    /\ tpc[t] = "set_region"
    /\ \E m \in DynamicMappings, mrg \in BOOLEAN, hv_ok \in BOOLEAN :
       \E errno \in MadviseAnswers(mrg, hv_ok) :
          /\ SetRegion(t, tslot[t], m, mrg, hv_ok, errno)
          /\ returned' = Append(returned,
                [op |-> "create", ok |-> CreateOk(hv_ok, errno),
                 slot |-> IF CreateOk(hv_ok, errno) THEN tslot[t] ELSE -1])
    /\ tpc' = [tpc EXCEPT ![t] = "idle"]
    /\ mutex' = 0
    /\ UNCHANGED << arch_mem_regions, backing_file, mergeable, overflow_checks, pc,
                    idx, error, mem_regions, shared_file_len, tmp_files,
                    guest_memory, phys_bits, next_kvm_memory_slot,
                    start_of_device_area, end_of_device_area, minted, reservations,
                    tslot, calls_left, host_cpu, initial_slot, failed_call, observed >>

\* The accessors of lines 166-176.
Accessors == {"guest_memory", "start_of_device_area", "end_of_device_area"}

\* An accessor that takes a slot from the counter.
AccessorMints(n) == NextSlot(n)

\* The slot counter after an accessor: the accessors take &self and only
\* clone or copy a field.
AccessorLeaves(n) == n

\* memory_manager.lock().unwrap().f() for an accessor f, called by thread t:
\* the guard is taken, the field is cloned or copied, the guard is dropped.
ThreadAccessor(t) ==
    /\ pc = "Ready"
    /\ tpc[t] = "idle"
    /\ calls_left > 0
    /\ MutexFree
    /\ calls_left' = calls_left - 1
    /\ \E f \in Accessors :
          observed' =
             [op |-> f,
              addr |-> IF f = "start_of_device_area" THEN start_of_device_area
                       ELSE IF f = "end_of_device_area" THEN end_of_device_area
                       ELSE U64Zero,
              regions |-> IF f = "guest_memory" THEN guest_memory ELSE << >>]
    /\ next_kvm_memory_slot' = AccessorLeaves(next_kvm_memory_slot)
    /\ UNCHANGED << arch_mem_regions, backing_file, mergeable, overflow_checks, pc,
                    idx, error, mem_regions, shared_file_len, tmp_files,
                    guest_memory, phys_bits, start_of_device_area,
                    end_of_device_area, minted, hv_calls, last_call, reservations,
                    mutex, tpc, tslot, returned, host_cpu, initial_slot,
                    failed_call, madvised >>

\* ------------------------------------------------------------------------
\* Specifications
\* ------------------------------------------------------------------------

\* After construction.
Calls ==
    \/ \E t \in Threads : ThreadLock(t)
    \/ \E t \in Threads : ThreadAllocate(t)
    \/ \E t \in Threads : ThreadCreateAllocate(t)
    \/ \E t \in Threads : ThreadCreateSetRegion(t)

Next ==
    \/ BuildRegion
    \/ MapGuestMemory
    \/ ComputeLayout
    \/ RegisterRegion
    \/ ReserveRegion
    \/ Calls

Spec == Init /\ [][Next]_vars

\* The slot counter: construction with anonymous memory, mergeable = false, on
\* one host CPU, then enough calls to exhaust the counter.
SlotCpus == { c \in SampleCpus : c.max_leaf = ExtLeaf(8) /\ c.leaf8_eax % 256 = 39 }

InitSlots == InitWith(SlotLayouts, {"None"}, {FALSE}, SlotCpus, SlotCalls, "backing")

\* With anonymous memory the loop over ram_regions of lines 93-119 is not run.
NextSlots ==
    \/ MapGuestMemory
    \/ ComputeLayout
    \/ RegisterRegion
    \/ ReserveRegion
    \/ Calls

SpecSlots == InitSlots /\ [][NextSlots]_vars

\* The manager in use: construction with anonymous memory on one host CPU,
\* then calls of every method, the accessors among them.
InitCalls == InitWith(SlotLayouts, {"None"}, BOOLEAN, SlotCpus, MaxCalls, "backing")

NextCalls ==
    \/ MapGuestMemory
    \/ ComputeLayout
    \/ RegisterRegion
    \/ ReserveRegion
    \/ Calls
    \/ \E t \in Threads : ThreadAccessor(t)

SpecCalls == InitCalls /\ [][NextCalls]_vars

\* get_host_cpu_phys_bits alone, on every CPU of Cpus.
InitProbe == InitWith(SlotLayouts, {"None"}, {FALSE}, Cpus, 0, "probe")

\* A call of get_host_cpu_phys_bits.
ProbeCpu ==
    /\ pc = "probe"
    /\ LET probe == get_host_cpu_phys_bits(host_cpu, overflow_checks)
       IN  /\ pc' = IF probe.panic THEN "Panic" ELSE "probed"
           /\ phys_bits' = probe.bits
    /\ UNCHANGED << arch_mem_regions, backing_file, mergeable, overflow_checks, idx,
                    error, mem_regions, shared_file_len, tmp_files, guest_memory,
                    next_kvm_memory_slot, start_of_device_area, end_of_device_area,
                    minted, hv_calls, last_call, reservations, mutex, tpc, tslot,
                    returned, calls_left, host_cpu, initial_slot,
                    failed_call, madvised, observed >>

SpecProbe == InitProbe /\ [][ProbeCpu]_vars

\* ------------------------------------------------------------------------
\* Claims
\* ------------------------------------------------------------------------

\* new returned Ok(memory_manager).
Ready == pc = "Ready"

\* The MemoryManager value was built (line 136), whatever came of new after.
ManagerBuilt == pc \in {"register", "reserve", "Ready"}

\* No thread is inside a call.
Quiescent == \A t \in Threads : tpc[t] = "idle"

\* C1: after new returns Ok for N RAM regions, the first call of
\* allocate_kvm_memory_slot returns N.
C1_FirstDynamicSlotIsN ==
    (Ready /\ Len(returned) >= 1 /\ returned[1].op = "allocate")
        => returned[1].slot = Len(ram_regions)

\* C2: during new the i-th set_user_memory_region call carries slot i - 1, so
\* that the N initial regions take the slots 0 .. N-1.
C2_InitialSlotsFromZero ==
    \A i \in 1..Len(hv_calls) :
        i <= Len(guest_memory) => hv_calls[i].slot = i - 1

\* C3: as long as fewer slots were minted than the counter has values, every
\* minted slot ID is above all the ones minted before it, and no slot ID was
\* handed to the hypervisor twice.
C3_SlotsStrictlyIncrease ==
    Len(minted) < SlotModulus =>
        /\ \A i \in 1..Len(minted) : \A j \in 1..Len(minted) :
              i < j => minted[i] < minted[j]
        /\ \A i \in 1..Len(hv_calls) : \A j \in 1..Len(hv_calls) :
              i < j => hv_calls[i].slot # hv_calls[j].slot

MintedByNew == Len(guest_memory)

C5_DeviceAreaAboveRam ==
    Ready =>
        LET mem_end == MemEnd(guest_memory)
        IN  /\ U64Lt(mem_end, MEM_32BIT_RESERVED_START)
                  => start_of_device_area = RAM_64BIT_START
            /\ ~U64Lt(mem_end, MEM_32BIT_RESERVED_START)
                  => /\ ~U64Add(mem_end, U64One).overflow
                     /\ start_of_device_area = U64Add(mem_end, U64One).val
            /\ U64Lt(mem_end, start_of_device_area)

\* C6: when the last RAM address is the largest u64, new stops at the add of
\* line 131 and builds no manager.
C6_AddIsChecked ==
    (guest_memory # << >> /\ MemEnd(guest_memory) = U64Max)
        => pc \in {"layout", "Panic"}

\* C7: in a manager that was built, end_of_device_area + 1 is 2^phys_bits,
\* whatever the probe returned.
C7_EndIsPowerOfTwo ==
    ManagerBuilt =>
        /\ phys_bits < 64
        /\ ~U64Add(end_of_device_area, U64One).overflow
        /\ U64Add(end_of_device_area, U64One).val = U64Pow2(phys_bits)

\* C8: get_host_cpu_phys_bits always returns, and returns 36 without leaf
\* 0x8000_0008, the address bits of that leaf less the reduction field on an
\* AMD CPU whose leaf 0x8000_001f reports memory encryption, and the address
\* bits of that leaf on any other CPU.
C8_ProbeResult ==
    pc # "probe" =>
        LET raw_bits == host_cpu.leaf8_eax % 256
            R == (host_cpu.leaf1f_ebx \div 64) % 64
            enabled == U32Ge(host_cpu.max_leaf, ExtLeaf(31)) /\ host_cpu.leaf1f_eax % 2 = 1
        IN  /\ pc = "probed"
            /\ phys_bits =
                 IF ~U32Ge(host_cpu.max_leaf, ExtLeaf(8)) THEN 36
                 ELSE IF IsAMD(host_cpu) /\ enabled THEN raw_bits - R
                 ELSE raw_bits

\* The create_userspace_mapping calls that returned after construction, and
\* the hypervisor calls made after construction.
CreatesReturned == SelectSeq(returned, LAMBDA r : r.op = "create")

DynamicHvCalls == SubSeq(hv_calls, MintedByNew + 1, Len(hv_calls))

\* C9: create_userspace_mapping returns an error exactly when
\* set_user_memory_region failed; madvise is called only with mergeable set
\* and after the hypervisor call succeeded, and its failure leaves Ok(slot).
\* So the calls that returned to threads match the hypervisor's answers one
\* for one, and new goes on only past registrations the hypervisor accepted.
C9_ErrorIffHypervisorFails ==
    /\ last_call.by # -1 =>
          /\ last_call.ok <=> last_call.hv_ok
          /\ ~last_call.mergeable => ~last_call.advised
          /\ ~last_call.hv_ok => ~last_call.advised
          /\ (last_call.mergeable /\ last_call.hv_ok) => last_call.advised
          /\ (last_call.advised /\ last_call.errno # 0) => last_call.ok
          /\ ~last_call.advised => last_call.errno = 0
    /\ (Ready /\ Quiescent) =>
          /\ Len(CreatesReturned) = Len(DynamicHvCalls)
          /\ \A i \in 1..Len(CreatesReturned) :
                /\ CreatesReturned[i].ok <=> DynamicHvCalls[i].ok
                /\ CreatesReturned[i].ok
                      => CreatesReturned[i].slot = DynamicHvCalls[i].slot
    /\ pc \in {"register", "reserve", "Ready"} =>
          \A i \in 1..Len(hv_calls) : i <= MintedByNew => hv_calls[i].ok

\* A thread's create_userspace_mapping returned Ok although madvise failed
\* with EINVAL.
C9_Witness ==
    /\ Ready /\ Quiescent
    /\ last_call.by \in Threads
    /\ last_call.advised /\ last_call.errno = 22 /\ last_call.ok
    /\ returned[Len(returned)].op = "create" /\ returned[Len(returned)].ok

\* Every RAM region was registered with the hypervisor by new.
AllRegistered ==
    \A i \in 1..Len(ram_regions) :
        \E j \in 1..Len(hv_calls) :
            /\ j <= MintedByNew
            /\ hv_calls[j].gpa = ram_regions[i].addr
            /\ hv_calls[j].size = ram_regions[i].len
            /\ hv_calls[j].ok

\* Every architecture region was reserved in the allocator.
AllReserved ==
    \A i \in 1..Len(arch_mem_regions) :
        \E j \in 1..Len(reservations) :
            /\ reservations[j].addr = arch_mem_regions[i].addr
            /\ reservations[j].len = arch_mem_regions[i].len
            /\ reservations[j].ok

\* A step of new failed.
SomeStepFailed ==
    \/ error # "None"
    \/ \E j \in 1..Len(reservations) : ~reservations[j].ok
    \/ \E j \in 1..Len(hv_calls) : j <= Len(ram_regions) /\ ~hv_calls[j].ok /\ ~Ready

NewFinished == pc \in {"Ready", "Err"}

\* The loop of lines 93-119 has run for every RAM region.
BackingBuilt == backing_file # "None" /\ Len(mem_regions) = Len(ram_regions)

\* C11: with a directory for backing_file, whenever new has returned, Ok or
\* Err, no temporary file the loop made has a name in the directory; and in a
\* manager that new returned every RAM region is backed by a temporary file
\* of its own whose length is the length of the region.
C11_NoTempFileLeft ==
    backing_file = "Dir" =>
        /\ NewFinished => \A i \in 1..Len(tmp_files) : ~tmp_files[i].visible
        /\ Ready =>
              /\ Len(mem_regions) = Len(ram_regions)
              /\ \A i \in 1..Len(mem_regions) :
                    /\ mem_regions[i].file \in 1..Len(tmp_files)
                    /\ tmp_files[mem_regions[i].file].len = ram_regions[i].len
                    /\ tmp_files[mem_regions[i].file].open
                    /\ \A j \in 1..Len(mem_regions) :
                          i # j => mem_regions[i].file # mem_regions[j].file

\* C12: with a regular file for backing_file, once the loop has run for every
\* RAM region the length of the file is the length of each of the regions.
C12_FileLengthIsRegionLength ==
    (backing_file = "File" /\ BackingBuilt) =>
        \A i \in 1..Len(ram_regions) : shared_file_len = ram_regions[i].len

\* C13: when opening the file or making the temporary file fails, new returns
\* SharedFileCreate; when setting the length fails, new returns
\* SharedFileSetLen.
C13_CreateAndSetLenKinds ==
    /\ failed_call \in {"open", "mkstemp"}
          => (pc = "Err" /\ error = "SharedFileCreate")
    /\ failed_call = "set_len"
          => (pc = "Err" /\ error = "SharedFileSetLen")

\* The value line 138 gave the slot counter, in a manager that was built.
SeededWith(n) ==
    /\ ManagerBuilt
    /\ (next_kvm_memory_slot - Len(minted)) % SlotModulus = n % SlotModulus

\* C14 as stated: with a path that is neither a regular file nor a directory
\* the loop returns no SharedFileCreate and no SharedFileSetLen, pushes no
\* region, and once new is past line 138 or has returned the slot counter
\* was seeded with the number of RAM regions.
C14_SkippedWhileSeeded ==
    backing_file = "Other" =>
        /\ error \notin {"SharedFileCreate", "SharedFileSetLen"}
        /\ mem_regions = << >>
        /\ pc \notin {"backing", "layout"} => SeededWith(Len(ram_regions))

\* C14, amended: with a path that is neither a regular file nor a directory
\* the loop returns no SharedFileCreate and no SharedFileSetLen, touches no
\* file and pushes no region; GuestMemoryMmap::with_files is then handed an
\* empty list and refuses it, so that new returns the GuestMemory error,
\* builds no manager and seeds no slot counter.
C14_SkippedThenRejected ==
    backing_file = "Other" =>
        /\ error \notin {"SharedFileCreate", "SharedFileSetLen"}
        /\ failed_call = "None"
        /\ mem_regions = << >>
        /\ tmp_files = << >>
        /\ shared_file_len = U64Zero
        /\ pc \in {"backing", "Err"}
        /\ pc = "Err" => error = "GuestMemory"
        /\ guest_memory = << >>
        /\ next_kvm_memory_slot = 0
        /\ minted = << >>

\* Two RAM regions were skipped and new returned the GuestMemory error.
C14_Witness ==
    /\ backing_file = "Other"
    /\ Len(ram_regions) = 2
    /\ idx = 3
    /\ pc = "Err"
    /\ error = "GuestMemory"

\* The set_user_memory_region calls new made.
CallsOfNew ==
    SubSeq(hv_calls, 1,
           IF Len(hv_calls) < MintedByNew THEN Len(hv_calls) ELSE MintedByNew)

\* C15: when a set_user_memory_region call of new fails it is the last one:
\* new returns the GuestMemory error, the regions before it were registered
\* and no region after it was, madvise was called neither on the region that
\* failed nor on a later one, and allocate_mmio_addresses was not called.
C15_FirstFailureStops ==
    \A k \in 1..Len(CallsOfNew) :
        ~CallsOfNew[k].ok =>
            /\ k = Len(hv_calls)
            /\ \A j \in 1..(k - 1) : hv_calls[j].ok
            /\ pc = "Err"
            /\ error = "GuestMemory"
            /\ \A j \in k..Len(guest_memory) : guest_memory[j].host \notin madvised
            /\ reservations = << >>

\* The first of two registrations failed, with merging asked for.
C15_Witness ==
    /\ mergeable
    /\ Len(guest_memory) = 2
    /\ Len(hv_calls) = 1
    /\ ~hv_calls[1].ok
    /\ pc = "Err"

\* The registration of the i-th region of the guest memory was accepted.
Registered(i) ==
    /\ i <= Len(hv_calls)
    /\ hv_calls[i].gpa = guest_memory[i].addr
    /\ hv_calls[i].size = guest_memory[i].len
    /\ hv_calls[i].host = guest_memory[i].host
    /\ hv_calls[i].ok

\* The device area was computed from the probe and the guest memory.
LayoutComputed ==
    /\ guest_memory # << >>
    /\ pc \notin {"backing", "layout"}
    /\ phys_bits = get_host_cpu_phys_bits(host_cpu, overflow_checks).bits
    /\ end_of_device_area = EndOfDeviceArea(phys_bits, overflow_checks).val
    /\ start_of_device_area =
          StartOfDeviceArea(MemEnd(guest_memory), overflow_checks).val

\* C16: once allocate_mmio_addresses has been called, every RAM region has
\* been registered with the hypervisor and accepted; once
\* set_user_memory_region has been called, the guest memory has been built
\* and the bounds of the device area computed.
C16_RegisterThenReserve ==
    /\ reservations # << >> =>
          /\ AllRegistered
          /\ Len(guest_memory) = Len(ram_regions)
          /\ \A i \in 1..Len(guest_memory) : Registered(i)
    /\ hv_calls # << >> => LayoutComputed

\* new returned a manager for two RAM regions mapped on a regular file.
C16_Witness ==
    /\ Ready
    /\ backing_file = "File"
    /\ Len(guest_memory) = 2
    /\ Len(reservations) = 3

\* C17: the j-th call of allocate_mmio_addresses is for the j-th region of
\* arch_mem_regions, at its address and with its length; a manager that new
\* returned has one accepted reservation for each region, RAM or not; and a
\* reservation that answered None is the last one, after which new returned
\* MemoryRangeAllocation.
C17_ReservedOnceInOrder ==
    /\ Len(reservations) <= Len(arch_mem_regions)
    /\ \A j \in 1..Len(reservations) :
          /\ reservations[j].addr = arch_mem_regions[j].addr
          /\ reservations[j].len = arch_mem_regions[j].len
          /\ ~reservations[j].ok =>
                /\ j = Len(reservations)
                /\ pc = "Err"
                /\ error = "MemoryRangeAllocation"
    /\ Ready =>
          /\ Len(reservations) = Len(arch_mem_regions)
          /\ \A j \in 1..Len(reservations) : reservations[j].ok

\* The second of three reservations answered None.
C17_Witness ==
    /\ Len(arch_mem_regions) = 3
    /\ Len(reservations) = 2
    /\ reservations[1].ok
    /\ ~reservations[2].ok
    /\ pc = "Err"

\* A step of an accessor: a call was used up and no thread changed place.
AccessorStep == calls_left' # calls_left /\ tpc' = tpc

\* What the last accessor returned is the field as the step leaves it.
ObservedIsField ==
    /\ observed'.op = "start_of_device_area"
          => observed'.addr = start_of_device_area'
    /\ observed'.op = "end_of_device_area"
          => observed'.addr = end_of_device_area'
    /\ observed'.op = "guest_memory" => observed'.regions = guest_memory'

\* C18: once new has returned a manager no step changes the bounds of the
\* device area or the guest memory; a step of an accessor changes neither the
\* slot counter nor what the hypervisor, madvise and the allocator saw; and
\* an accessor returns the field as it is.
C18_CallsKeepLayout ==
    [][Ready =>
          /\ start_of_device_area' = start_of_device_area
          /\ end_of_device_area' = end_of_device_area
          /\ guest_memory' = guest_memory
          /\ ObservedIsField
          /\ AccessorStep =>
                /\ next_kvm_memory_slot' = next_kvm_memory_slot
                /\ minted' = minted
                /\ hv_calls' = hv_calls
                /\ madvised' = madvised
                /\ reservations' = reservations
                /\ returned' = returned]_vars

\* After an accessor and a failed create_userspace_mapping the slot counter
\* has moved.
C18_Witness ==
    /\ Ready /\ Quiescent
    /\ observed.op = "start_of_device_area"
    /\ Len(returned) = 1
    /\ returned[1].op = "create" /\ ~returned[1].ok
    /\ next_kvm_memory_slot # initial_slot

\* C19: in a manager that new returned, start_of_device_area is not above
\* end_of_device_area.
C19_DeviceAreaWellFormed ==
    Ready => U64Le(start_of_device_area, end_of_device_area)

\* C20: when new returns an error from a registration or from a reservation,
\* the registrations and the reservations accepted before it are still what
\* the hypervisor and the allocator hold: the failed call is the idx-th of
\* its loop and every call before it stands.
C20_NoRollback ==
    /\ (pc = "Err" /\ error = "GuestMemory" /\ guest_memory # << >>) =>
          /\ Len(hv_calls) = idx
          /\ ~hv_calls[idx].ok
          /\ \A i \in 1..(idx - 1) : Registered(i)
    /\ (pc = "Err" /\ error = "MemoryRangeAllocation") =>
          /\ Len(hv_calls) = Len(guest_memory)
          /\ \A i \in 1..Len(guest_memory) : Registered(i)
          /\ Len(reservations) = idx
          /\ ~reservations[idx].ok
          /\ \A j \in 1..(idx - 1) :
                /\ reservations[j].ok
                /\ reservations[j].addr = arch_mem_regions[j].addr
                /\ reservations[j].len = arch_mem_regions[j].len

\* The last of three reservations answered None after two registrations and
\* two reservations were accepted.
C20_Witness ==
    /\ pc = "Err"
    /\ error = "MemoryRangeAllocation"
    /\ Len(hv_calls) = 2
    /\ Len(reservations) = 3
    /\ reservations[2].ok

====
